---- MODULE Spec2Model ----
(***************************************************************************)
(* Model of the four-stage research pipeline of src/core/research.py:      *)
(* ResearchAgent.generate_insights drives Analyzer -> Skeptic ->           *)
(* Synthesizer -> Validator and keeps the conversation log;                *)
(* ValidatorAgent.validate re-checks every synthesized insight against a   *)
(* paper search and an LLM judgement.                                      *)
(*                                                                         *)
(* Scores are kept in tenths (8.5 is 85, 6 is 60) so that the float        *)
(* literals of the source stay integers.  A JSON number is the record      *)
(* [t |-> "num", v |-> tenths]; an absent key, a JSON null and a JSON      *)
(* string are the same record shape with another tag.  A Python dict field *)
(* that is not set holds the string "absent".                              *)
(***************************************************************************)
EXTENDS Integers, Sequences, FiniteSets, TLC

\* ---------------------------------------------------------------- bounds
MaxPapers == 6
MaxGaps == 4
MaxInsights == 1
MaxBatch == 2
MaxTextLen == 3
MaxDepth == 1
MaxSamples == 2
MaxWords == 2

\* ------------------------------------------------------ program constants
AgentPaperCap == 5
IntelligenceThreshold == 50
TopByRelevance == 20
RandomExtra == 10
IntelligenceCap == 30
KeywordWindow == 150
ShortWordLength == 4
KeywordCap == 5
FallbackFanout == 3
DefaultSurviveScore == 85
InconclusiveScore == 70
FallbackScore == 50
SurvivalThreshold == 60
DefaultJudgedScore == 50
GapFallbackNovelty == 70
GenericFallbackNovelty == 60
StringInsightNovelty == 50
PromotedTitleCap == 100

\* ------------------------------------------------------------ JSON values
Num(x) == [t |-> "num", v |-> x]
AbsentValue == [t |-> "absent", v |-> 0]
NullValue == [t |-> "null", v |-> 0]
StringValue == [t |-> "str", v |-> 0]

IsNumber(j) == j.t = "num"

Min(a, b) == IF a < b THEN a ELSE b

\* Python's list slice xs[:k]
Take(xs, k) == SubSeq(xs, 1, Min(k, Len(xs)))

\* ----------------------------------------------------------------- state
VARIABLES
    pc,                 \* position of generate_insights
    papers,             \* the papers argument of the current call
    papers_for_agents,  \* the sample handed to the first three stages
    analyzer_received,  \* papers argument seen by AnalyzerAgent.analyze_papers
    skeptic_received,   \* papers argument seen by SkepticAgent.critique
    gaps,               \* analysis['cross_paper_gaps']
    conversation_log,   \* ResearchAgent.conversation_log
    insights,           \* the insight dicts handed to validate (the objects)
    pre_validation,     \* copy of the insight dicts as validate received them
    vi,                 \* loop position of validate (1-based index of enumerate)
    vphase,             \* position inside validate: search | call | decide | none
    challenge_papers,   \* number of challenge papers found for insight vi
    validation,         \* what extract_json returned for insight vi
    validated_insights, \* validate's list: indices of the insight objects
    validation_stats,   \* validate's survived / refined / rejected counters
    branch,             \* per insight: the branch of validate's loop body taken
    calls,              \* the searches and LLM calls validate has issued, in order
    research_intelligence, \* ResearchAgent.research_intelligence is set
    field_context,      \* ResearchAgent.field_context
    context_call,       \* the call that wrote field_context: none | this | earlier
    papers_for_intelligence, \* the sample handed to the research-intelligence module
    result,             \* what extract_json returned to the running stage
    stage_result,       \* what the stage that ran last returned
    keyword_title_text,         \* _extract_search_keywords' argument title_text
    keyword_gap_text,   \* its argument gap_text
    keyword_topic,      \* its argument topic
    search_terms,       \* its list search_terms
    search_query,       \* the string it returns
    text,               \* the text handed to extract_json
    json_value,         \* the JSON value handed to json.dumps
    futures,            \* search_all: the state of each platform's task
    results             \* search_all: the platforms whose papers were collected

vars == <<pc, papers, papers_for_agents, analyzer_received,
          skeptic_received, gaps, conversation_log, insights, pre_validation,
          vi, vphase, challenge_papers, validation, validated_insights,
          validation_stats, branch, calls, research_intelligence, field_context,
          context_call, papers_for_intelligence, result, stage_result, text,
          json_value, keyword_title_text, keyword_gap_text, keyword_topic,
          search_terms, search_query, futures,
          results>>

\* the state of a client call made outside the pipeline
client_vars == <<text, json_value>>

\* the locals of SimpleMultiPlatformScraper.search_all
search_vars == <<futures, results>>

\* the arguments and the result of ValidatorAgent._extract_search_keywords
keyword_vars == <<keyword_title_text, keyword_gap_text, keyword_topic, search_terms,
                  search_query>>

\* the ResearchAgent's own attributes that outlive a call
agent_vars == <<research_intelligence, field_context, context_call,
                papers_for_intelligence>>

\* the locals of ValidatorAgent.validate
validate_vars == <<vi, vphase, challenge_papers, validation, validated_insights,
                   validation_stats, branch, calls>>

\* --------------------------------------------------------------- inputs
\* list lengths on both sides of the agent cap, and the large-set threshold
PaperCounts == {1, MaxPapers - 1, MaxPapers, IntelligenceThreshold}

PaperList(n) == [i \in 1..n |-> i]

\* the Analyzer finds no gap, or more gaps than the fallback uses
GapCounts == {0, MaxGaps}

GapList(n) == [i \in 1..n |-> "gap " \o ToString(i)]

NoStats == [survived |-> 0, refined |-> 0, rejected |-> 0]

\* An insight dict as SynthesizerAgent.synthesize returns it: the reasoning
\* fields are present, the validation fields are not set yet.
Insight(title, observation, gap, novelty) ==
    [title |-> title, observation |-> observation, gap |-> gap,
     novelty_score |-> novelty,
     validated |-> "absent", survival_score |-> AbsentValue,
     validation_evidence |-> "absent", validation_dialogue |-> "absent",
     related_work |-> "absent", validation_comment |-> "absent",
     experiment_design_quality |-> "absent"]

\* Insight dicts the LLM can put in its "insights" array.
LLMInsights ==
    { Insight("llm title", "observation text", "gap text", Num(90)),
      Insight("llm title", "", "gap text", AbsentValue) }

RECURSIVE SeqsUpTo(_, _)
SeqsUpTo(S, n) ==
    IF n = 0 THEN {<<>>}
    ELSE LET shorter == SeqsUpTo(S, n - 1)
         IN  shorter \cup { Append(s, x) : s \in { q \in shorter : Len(q) = n - 1 }, x \in S }

\* -------------------------------------------------------- orchestrator
ClearLog_kept(log) == log

\* self.conversation_log = [] at the start of generate_insights
ClearLog(log) == <<>>

PapersForAgents_all(ps) == ps

\* papers[:5] if len(papers) > 5 else papers
PapersForAgents(ps) == IF Len(ps) > AgentPaperCap THEN Take(ps, AgentPaperCap) ELSE ps

SampleFrom_start(n) == 0

\* range(20, len(papers)): the first index random.sample may draw
SampleFrom(n) == TopByRelevance

\* random.sample(range(lo, n), k): k distinct indices of lo..n-1 in any order,
\* given here as positions lo+1..n.  The draws enumerated are MaxSamples runs of
\* k consecutive positions; a run that reaches the end of the range goes on at
\* its start, so that the drawn positions are not always in rising order.
RandomSample(lo, n, k) ==
    LET size == n - lo
    IN  { [j \in 1..k |-> lo + 1 + ((s * (size - 2) + j - 1) % size)] :
            s \in 0..(MaxSamples - 1) }

\* the draws generate_insights can make for the papers ps (lines 1204-1206);
\* random.sample is called only past the 50-paper threshold
RandomIndices(ps) ==
    IF Len(ps) >= IntelligenceThreshold /\ Len(ps) > IntelligenceCap
    THEN RandomSample(SampleFrom(Len(ps)), Len(ps), Min(RandomExtra, Len(ps) - TopByRelevance))
    ELSE {<<>>}

\* lines 1197-1208: all papers, or from 50 papers on the first 20 extended by
\* the drawn ones and cut to 30
PapersForIntelligence(ps, random_indices) ==
    IF Len(ps) >= IntelligenceThreshold
    THEN LET sampled_papers ==
                 Take(ps, TopByRelevance) \o
                    [j \in 1..Len(random_indices) |-> ps[random_indices[j]]]
         IN  Take(sampled_papers, IntelligenceCap)
    ELSE ps

LogEntry(turn, agent, responding_to) ==
    [turn |-> turn, agent |-> agent, responding_to |-> responding_to]

\* no extract_json value is held: the stage has not called, or has returned
NoResult == [shape |-> "none"]

\* no stage has returned in this call
NoStageResult == [stage |-> "none"]

\* --------------------------------------------------------------- analyzer
\* What extract_json hands to analyze_papers.
\*   shape:            map | list | null | scalar
\*   elements:         of a list: empty | given
\*   paper_analyses:   absent | empty | given
\*   cross_paper_gaps: absent | empty | mappings | no_gap_key | strings |
\*                     null | scalar; n is the length of a list of gaps
\*   dialogue_message: absent | empty | given
AnalysisValue(shape, elements, paper_analyses, cross_paper_gaps, n, dialogue_message) ==
    [shape |-> shape, elements |-> elements, paper_analyses |-> paper_analyses,
     cross_paper_gaps |-> cross_paper_gaps, n |-> n,
     dialogue_message |-> dialogue_message]

GapKinds == {"mappings", "no_gap_key", "strings"}

AnalyzerResults ==
    { AnalysisValue(s, "empty", "absent", "absent", 0, "absent") : s \in {"null", "scalar"} }
      \cup { AnalysisValue("list", e, "absent", "absent", 0, "absent") : e \in {"empty", "given"} }
      \cup { AnalysisValue("map", "empty", pa, "mappings", n, d) :
               pa \in {"absent", "given"}, n \in GapCounts \ {0}, d \in {"absent", "given"} }
      \cup { AnalysisValue("map", "empty", pa, g, 0, d) :
               pa \in {"absent", "empty", "given"}, g \in {"absent", "empty"},
               d \in {"absent", "empty", "given"} }
      \cup { AnalysisValue("map", "empty", "given", g, n, d) :
               g \in {"no_gap_key", "strings"}, n \in GapCounts \ {0}, d \in {"absent", "given"} }
      \cup { AnalysisValue("map", "empty", "given", g, 0, d) :
               g \in {"null", "scalar"}, d \in {"absent", "given"} }

\* lines 133-145: a list is lifted into paper_analyses, anything else that is
\* not a mapping becomes the empty analysis; a mapping is kept as it came
NormalizeAnalysis(a) ==
    CASE a.shape = "list" ->
            AnalysisValue("map", "empty", a.elements, "empty", 0, "empty")
      [] a.shape \in {"null", "scalar"} ->
            AnalysisValue("map", "empty", "empty", "empty", 0, "empty")
      [] OTHER -> a

\* a mapping without any key is falsy
EmptyAnalysis(a) ==
    /\ a.paper_analyses = "absent"
    /\ a.cross_paper_gaps = "absent"
    /\ a.dialogue_message = "absent"

\* line 158: analysis or {"paper_analyses": [], "cross_paper_gaps": []}
AnalysisOrDefault(a) ==
    IF EmptyAnalysis(a)
    THEN AnalysisValue("map", "empty", "empty", "empty", 0, "absent")
    ELSE a

\* `if gaps:` on the cross_paper_gaps value
TruthyGaps(a) == a.cross_paper_gaps \in GapKinds \cup {"scalar"}

\* lines 148-155: gaps[0] on a number is a TypeError
AnalyzePapersRaises(a) ==
    LET analysis == NormalizeAnalysis(a)
    IN  /\ analysis.dialogue_message # "given"
        /\ analysis.cross_paper_gaps = "scalar"

AnalyzerDialogue(analysis) ==
    CASE analysis.dialogue_message = "given" -> "given"
      [] TruthyGaps(analysis) -> "generated from the top gap"
      [] OTHER -> "generated"

\* the dict analyze_papers returns (lines 157-162)
AnalyzePapers(a, ps) ==
    [stage |-> "Analyzer",
     output |-> AnalysisOrDefault(NormalizeAnalysis(a)),
     papers_analyzed |-> Len(Take(ps, AgentPaperCap)),
     dialogue_message |-> AnalyzerDialogue(NormalizeAnalysis(a))]

\* generate_insights, lines 1238-1253: len(gaps) needs a list, and
\* gaps[0]['gap'] needs a first entry that is a mapping with that key
GapsLogRaises(analysis) ==
    analysis.cross_paper_gaps \in {"null", "scalar", "no_gap_key", "strings"}

\* analysis.get('cross_paper_gaps', [])
GapsOf(analysis) ==
    IF analysis.cross_paper_gaps = "mappings" THEN GapList(analysis.n) ELSE <<>>

\* ---------------------------------------------------------------- skeptic
\* What extract_json hands to critique.
\*   shape:    map | list | null | scalar
\*   elements: of a list: empty | given | strings
\*   contradictions: absent | empty | given | strings | null
\*   the other lists: absent | empty | given
\*   the texts:       absent | empty | given
CritiqueValue(shape, elements, contradictions, potential_contradictions, challenged_gaps, missing_analysis, field_insights, interpretation, field_knowledge_contradictions, dialogue_message) ==
    [shape |-> shape, elements |-> elements, contradictions |-> contradictions,
     potential_contradictions |-> potential_contradictions,
     challenged_gaps |-> challenged_gaps, missing_analysis |-> missing_analysis,
     field_insights |-> field_insights, interpretation |-> interpretation,
     field_knowledge_contradictions |-> field_knowledge_contradictions,
     dialogue_message |-> dialogue_message]

\* the mapping the prompt asks for
FullCritique ==
    CritiqueValue("map", "empty", "given", "given", "given", "given",
                  "given", "given", "given", "given")

\* a mapping without any key
EmptyCritique ==
    CritiqueValue("map", "empty", "absent", "absent", "absent", "absent",
                  "absent", "absent", "absent", "absent")

SkepticResults ==
    { [EmptyCritique EXCEPT !.shape = s] : s \in {"null", "scalar"} }
      \cup { [EmptyCritique EXCEPT !.shape = "list", !.elements = e] :
               e \in {"empty", "given", "strings"} }
      \cup { FullCritique, EmptyCritique }
      \cup { [FullCritique EXCEPT !.contradictions = c, !.dialogue_message = d] :
               c \in {"absent", "empty", "strings", "null"}, d \in {"absent", "given"} }
      \cup { [FullCritique EXCEPT !.contradictions = c, !.interpretation = i] :
               c \in {"empty", "given", "null"}, i \in {"absent", "empty"} }
      \cup { [FullCritique EXCEPT !.challenged_gaps = "absent", !.missing_analysis = m] :
               m \in {"absent", "given"} }
      \cup { [FullCritique EXCEPT !.potential_contradictions = q, !.field_insights = f] :
               q \in {"absent", "empty", "given"}, f \in {"absent", "empty"} }
      \cup { [FullCritique EXCEPT !.field_knowledge_contradictions = k] :
               k \in {"absent", "empty"} }
      \cup { [EmptyCritique EXCEPT !.dialogue_message = "given"],
             [EmptyCritique EXCEPT !.contradictions = "given"] }

\* lines 274-289: a list is lifted into contradictions, anything else that is
\* not a mapping becomes None
NormalizeCritique(c) ==
    CASE c.shape = "list" ->
            CritiqueValue("map", "empty", c.elements, "empty", "empty", "empty",
                          "empty", "empty", "empty", "empty")
      [] c.shape \in {"null", "scalar"} -> [EmptyCritique EXCEPT !.shape = "null"]
      [] OTHER -> c

\* `not critique`: None, or a mapping without any key
NoCritique(c) == c.shape = "null" \/ c = EmptyCritique

Falsy(field) == field \in {"absent", "empty", "null"}

\* lines 296-304
DefaultCritique ==
    CritiqueValue("map", "empty", "empty", "empty", "empty", "empty",
                  "default", "default", "default", "absent")

FillCritique_bare(c, fc) ==
    LET withPotential ==
            IF c.potential_contradictions = "absent"
            THEN [c EXCEPT !.potential_contradictions = "empty"] ELSE c
    IN  withPotential

\* lines 308-335: the fields the mapping lacks are generated
FillCritique(c, fc) ==
    LET withPotential ==
            IF c.potential_contradictions = "absent"
            THEN [c EXCEPT !.potential_contradictions = "empty"] ELSE c
        withKnowledge ==
            IF Falsy(c.field_knowledge_contradictions)
            THEN [withPotential EXCEPT !.field_knowledge_contradictions =
                     IF fc # "" THEN "default with field context" ELSE "default"]
            ELSE withPotential
        withInsights ==
            IF Falsy(c.field_insights)
            THEN [withKnowledge EXCEPT !.field_insights = "default"] ELSE withKnowledge
        withInterpretation ==
            IF Falsy(c.interpretation)
            THEN [withInsights EXCEPT !.interpretation = "default"] ELSE withInsights
    IN  IF Falsy(withInterpretation.potential_contradictions) /\ fc # ""
        THEN [withInterpretation EXCEPT !.potential_contradictions = "suggested"]
        ELSE withInterpretation

\* line 322: len() of a null contradictions value is a TypeError; line 342:
\* .get on a contradiction that is a string is an AttributeError
CritiqueRaises(c) ==
    LET critique == NormalizeCritique(c)
    IN  /\ ~NoCritique(critique)
        /\ \/ Falsy(critique.interpretation) /\ critique.contradictions = "null"
           \/ Falsy(critique.dialogue_message) /\ critique.contradictions = "strings"

SkepticDialogue(critique) ==
    IF critique.dialogue_message = "given" THEN "given" ELSE "generated"

\* the dict critique returns (lines 353-357)
CritiqueOf(c, fc) ==
    LET critique == NormalizeCritique(c)
    IN  [stage |-> "Skeptic",
         output |-> IF NoCritique(critique) THEN DefaultCritique
                    ELSE FillCritique(critique, fc),
         papers_analyzed |-> 0,
         dialogue_message |-> SkepticDialogue(critique)]

\* generate_insights, line 1272: len(contradictions) needs a list
ContradictionsLogRaise(critique) == critique.contradictions = "null"

\* synthesize, lines 385-389: c.get on every contradiction
ContradictionsPromptRaise(critique) == critique.contradictions \in {"strings", "null"}

\* ------------------------------------------------------------ synthesizer
\* Bare strings the LLM can put in its insights array: a short one, and one of
\* 150 characters.
BareStrings == {"string item", "long string item"}

\* len(item) in characters
CharLen(item) == IF item = "long string item" THEN 150 ELSE 11

\* item[:n]
Slice(item, n) ==
    IF CharLen(item) > n
    THEN "first " \o ToString(n) \o " characters of " \o item
    ELSE item

\* Elements the LLM can put in its insights array: an insight dict, a bare
\* string, or something that is neither (a number, a nested list).
\* A bare string is held in the title slot of its record.
SynthItems ==
    { [kind |-> "dict", dict |-> d] : d \in LLMInsights }
      \cup { [kind |-> "str", dict |-> Insight(item, "", "", AbsentValue)] :
               item \in BareStrings }
      \cup { [kind |-> "other", dict |-> Insight("", "", "", AbsentValue)] }

\* What extract_json hands to synthesize: null (also for an "Error:" text),
\* a scalar, a list, or a mapping whose 'insights' value is a list, is
\* missing, or is not a list.
\* dialogue_messages is the mapping's value of that name: absent, or a number.
SynthResults ==
    { [shape |-> s, items |-> <<>>, dialogue_messages |-> "absent"] :
        s \in {"null", "scalar", "map_missing", "map_nonlist"} }
      \cup { [shape |-> s, items |-> xs, dialogue_messages |-> "absent"] :
               s \in {"list", "map"}, xs \in SeqsUpTo(SynthItems, MaxInsights) }
      \cup { [shape |-> "map", items |-> xs, dialogue_messages |-> "scalar"] :
               xs \in SeqsUpTo(SynthItems, 1) }

\* the dict built for a bare string element (research.py 625-637)
Promoted(item) ==
    Insight(IF CharLen(item) > PromotedTitleCap THEN Slice(item, PromotedTitleCap) ELSE item,
            item, item, Num(StringInsightNovelty))

PromotedString == Promoted("string item")

RECURSIVE CleanItems(_)
\* lines 616-641: keep dicts, promote strings, skip everything else
CleanItems(items) ==
    IF items = <<>> THEN <<>>
    ELSE LET x == Head(items)
             rest == CleanItems(Tail(items))
         IN  CASE x.kind = "dict" -> <<x.dict>> \o rest
               [] x.kind = "str" -> <<Promoted(x.dict.title)>> \o rest
               [] OTHER -> rest

\* _create_fallback_insights: one insight per gap, first 3 gaps
CreateFallbackInsights(gs) ==
    [i \in 1..Len(Take(gs, FallbackFanout)) |->
        Insight("Research Direction " \o ToString(i) \o ": " \o gs[i],
                "Multiple papers reveal a pattern: " \o gs[i],
                gs[i], Num(GapFallbackNovelty))]

\* _create_generic_fallback: one insight per paper, first 3 papers
CreateGenericFallback(ps) ==
    [i \in 1..Len(Take(ps, FallbackFanout)) |->
        Insight("Extension of paper " \o ToString(ps[i]),
                "paper " \o ToString(ps[i]) \o " presents promising results",
                "opportunities to extend paper " \o ToString(ps[i]),
                Num(GenericFallbackNovelty))]

Synthesized_nofallback(r, ps, gs) ==
    IF r.shape \in {"list", "map"} THEN CleanItems(r.items) ELSE <<>>

\* SynthesizerAgent.synthesize, lines 604-676
Synthesized(r, ps, gs) ==
    LET raw == IF r.shape \in {"list", "map"} THEN CleanItems(r.items) ELSE <<>>
        fromGaps == IF raw = <<>> THEN CreateFallbackInsights(gs) ELSE raw
    IN  IF fromGaps = <<>> THEN CreateGenericFallback(ps) ELSE fromGaps

\* line 679: len(dialogue_messages) on a number is a TypeError
DialogueMessagesRaise(r) == r.dialogue_messages = "scalar"

\* -------------------------------------------------------------- validator
\* Outcome of the paper search for one insight: the call raises, the HTTP
\* request or the XML parse fails inside search_arxiv, or n entries arrive.
SearchOutcomes ==
    { [status |-> "raise", n |-> 0], [status |-> "http_error", n |-> 0] }
      \cup { [status |-> "ok", n |-> k] : k \in {0, 2, 4} }


MaxChallengePapers == 3

\* search_arxiv (arxiv.py 40-80): [] on any failure, else papers[:max_results]
SearchArxiv(o) ==
    IF o.status = "ok" THEN Min(o.n, MaxChallengePapers) ELSE 0

ChallengePapers_propagating(o) ==
    IF o.status = "raise"
    THEN [raised |-> TRUE, n |-> 0]
    ELSE [raised |-> FALSE, n |-> SearchArxiv(o)]

\* validate's try/except around the search (research.py 807-812): the number
\* of challenge papers, and whether the failure leaves the loop.
ChallengePapers(o) ==
    IF o.status = "raise"
    THEN [raised |-> FALSE, n |-> 0]
    ELSE [raised |-> FALSE, n |-> SearchArxiv(o)]

\* The judgement extract_json yields for the validator's prompt.
\*   shape: null | scalar | list_empty | list_scalar | list_map | map
\*   keys:  TRUE when the mapping has at least one key
Judgement(shape, keys, gsv, score, refinement, evidence, extras) ==
    [shape |-> shape, keys |-> keys, gap_still_valid |-> gsv,
     survival_score |-> score, refinement |-> refinement,
     evidence |-> evidence, extras |-> extras]

NoMapping(shape) == Judgement(shape, FALSE, "absent", AbsentValue, "", "absent", FALSE)

GapValidValues == {"absent", "true", "false", "truthy string", "null"}

ScoreValues == {AbsentValue, NullValue, StringValue, Num(59), Num(60), Num(110)}

RefinementValues == {" ", "observation text", "gap text", "refined text"}

Judgements ==
    { NoMapping(s) : s \in {"null", "scalar", "list_empty", "list_scalar", "list_map", "map"} }
      \cup { Judgement("map", TRUE, g, sc, "", "absent", FALSE) :
               g \in GapValidValues, sc \in ScoreValues }
      \cup { Judgement("map", TRUE, "true", Num(60), r, "absent", FALSE) :
               r \in RefinementValues }
      \cup { Judgement("list_map", TRUE, "true", Num(60), "", "evidence text", TRUE),
             Judgement("list_map", TRUE, "false", Num(60), "", "evidence text", TRUE) }

NormalizeValidation_unchecked(j) ==
    IF j.shape \in {"map", "list_map", "list_scalar"}
    THEN [j EXCEPT !.shape = "map", !.keys = TRUE]
    ELSE NoMapping("null")

\* lines 915-924: a list is replaced by its leading mapping, anything that is
\* not a mapping becomes None
NormalizeValidation(j) ==
    IF j.shape \in {"map", "list_map"} THEN [j EXCEPT !.shape = "map"]
    ELSE NoMapping("null")

\* `if not validation`: None or an empty mapping
ParsingFailed(v) == v.shape # "map" \/ ~v.keys

\* validation.get('survival_score', 5)
SurvivalScoreOf(v) ==
    IF v.survival_score.t = "absent" THEN Num(DefaultJudgedScore) ELSE v.survival_score

\* Python truthiness of the gap_still_valid value
Truthy(g) == g \in {"true", "truthy string"}

\* validation.get('gap_still_valid', survival_score >= 6): the default is
\* evaluated whether or not the key is present, and so is line 945; both
\* compare the score with an int, a TypeError unless it is a number.
JudgementRaises(v) == ~IsNumber(SurvivalScoreOf(v))

GapValid(v) ==
    IF v.gap_still_valid = "absent"
    THEN SurvivalScoreOf(v).v >= SurvivalThreshold
    ELSE Truthy(v.gap_still_valid)

Survives_strict(v) == GapValid(v) /\ SurvivalScoreOf(v).v > SurvivalThreshold

\* line 945: gap_valid and survival_score >= 6
Survives(v) == GapValid(v) /\ SurvivalScoreOf(v).v >= SurvivalThreshold

\* str.strip() on the texts of the model
Strip(s) == IF s = " " THEN "" ELSE s

DefaultSurvive_dialogue(x) ==
    [x EXCEPT !.validated = "True",
              !.survival_score = Num(DefaultSurviveScore),
              !.validation_evidence = "No contradicting prior work found",
              !.validation_dialogue = "No contradicting prior work found"]

\* lines 816-818
DefaultSurvive(x) ==
    [x EXCEPT !.validated = "True",
              !.survival_score = Num(DefaultSurviveScore),
              !.validation_evidence = "No contradicting prior work found"]

InconclusiveSurvive_low(x) ==
    [x EXCEPT !.validated = "True",
              !.survival_score = Num(DefaultJudgedScore),
              !.validation_evidence = "Validation inconclusive"]

\* lines 929-931
InconclusiveSurvive(x) ==
    [x EXCEPT !.validated = "True",
              !.survival_score = Num(InconclusiveScore),
              !.validation_evidence = "Validation inconclusive"]

EvidenceOf(v) ==
    IF v.evidence = "absent" THEN "Gap validated against recent literature." ELSE v.evidence

\* `if refinement and refinement.strip()`
HasRefinement(v) == v.refinement # "" /\ Strip(v.refinement) # ""

Refine_title(x, v) ==
    IF HasRefinement(v) THEN [x EXCEPT !.title = v.refinement, !.gap = v.refinement] ELSE x

\* lines 970-976; observation and gap_text are the values read before the call
Refine(x, v) ==
    LET observation == x.observation
        gap_text == x.gap
        r == v.refinement
        newObs == IF observation # "" /\ Strip(r) # Strip(observation) THEN r ELSE x.observation
        newGap == IF observation = "" \/ Strip(r) # Strip(gap_text) THEN r ELSE x.gap
    IN  IF HasRefinement(v)
        THEN [x EXCEPT !.observation = newObs, !.gap = newGap]
        ELSE x

\* lines 947-976: the insight survives the judgement
JudgedSurvive(x, v) ==
    LET marked == [x EXCEPT !.validated = "True",
                            !.survival_score = SurvivalScoreOf(v),
                            !.validation_evidence = EvidenceOf(v),
                            !.validation_dialogue = EvidenceOf(v)]
        extended == IF v.extras
                    THEN [marked EXCEPT !.related_work = "related work",
                                        !.validation_comment = "comment",
                                        !.experiment_design_quality = "scored"]
                    ELSE marked
    IN  Refine(extended, v)

\* x.get('novelty_score', 0)
NoveltyOf(x) == IF x.novelty_score.t = "num" THEN x.novelty_score.v ELSE 0

BestInsight_min(ins) ==
    CHOOSE i \in 1..Len(ins) :
        /\ \A k \in 1..Len(ins) : NoveltyOf(ins[k]) >= NoveltyOf(ins[i])
        /\ \A k \in 1..(i - 1) : NoveltyOf(ins[k]) > NoveltyOf(ins[i])

\* max(insights, key=...): the first insight whose key is maximal
BestInsight(ins) ==
    CHOOSE i \in 1..Len(ins) :
        /\ \A k \in 1..Len(ins) : NoveltyOf(ins[k]) <= NoveltyOf(ins[i])
        /\ \A k \in 1..(i - 1) : NoveltyOf(ins[k]) < NoveltyOf(ins[i])

NeedsFallback_always(validated, ins) == Len(ins) > 0

\* line 995
NeedsFallback(validated, ins) == Len(validated) = 0 /\ Len(ins) > 0

\* lines 998-1000
Resurrect(x) ==
    [x EXCEPT !.validated = "False",
              !.survival_score = Num(FallbackScore),
              !.validation_evidence = "All insights were challenged"]

\* ------------------------------------------------------------ LLM client
\* A text is a sequence of tokens.  "1", "s" and "null" are a number, a
\* string literal and the null literal; "k:" is a quoted key with its colon;
\* "w" is a word of prose; "fence" is a code fence of three backquotes; "Error:" is that prefix.
Tokens == {"[", "]", "{", "}", ",", "k:", "1", "s", "null", "w", "fence", "Error:"}

\* JSON values: t is num | str | null | arr | obj; items holds the elements of
\* an array, or the value of key k of an object.
Atom(t) == [t |-> t, items |-> <<>>]

NullJson == Atom("null")

RECURSIVE JsonValues(_)
JsonValues(depth) ==
    IF depth = 0 THEN {Atom("num"), Atom("str"), NullJson}
    ELSE LET inner == JsonValues(depth - 1)
         IN  inner
               \cup {[t |-> "arr", items |-> <<>>], [t |-> "obj", items |-> <<>>]}
               \cup {[t |-> c, items |-> <<x>>] : c \in {"arr", "obj"}, x \in inner}
               \cup {[t |-> "arr", items |-> <<x, y>>] : x \in inner, y \in inner}

NoParse == [ok |-> FALSE, value |-> NullJson, next |-> 0]

RECURSIVE ParseValue(_, _)
RECURSIVE ParseElements(_, _, _)
RECURSIVE ParseMembers(_, _, _)

\* the JSON grammar, read from token i; next is the first token not consumed
ParseValue(ts, i) ==
    IF i > Len(ts) THEN NoParse
    ELSE CASE ts[i] = "1" -> [ok |-> TRUE, value |-> Atom("num"), next |-> i + 1]
           [] ts[i] = "s" -> [ok |-> TRUE, value |-> Atom("str"), next |-> i + 1]
           [] ts[i] = "null" -> [ok |-> TRUE, value |-> NullJson, next |-> i + 1]
           [] ts[i] = "[" ->
                IF i < Len(ts) /\ ts[i + 1] = "]"
                THEN [ok |-> TRUE, value |-> [t |-> "arr", items |-> <<>>], next |-> i + 2]
                ELSE ParseElements(ts, i + 1, <<>>)
           [] ts[i] = "{" ->
                IF i < Len(ts) /\ ts[i + 1] = "}"
                THEN [ok |-> TRUE, value |-> [t |-> "obj", items |-> <<>>], next |-> i + 2]
                ELSE ParseMembers(ts, i + 1, <<>>)
           [] OTHER -> NoParse

ParseElements(ts, i, acc) ==
    LET v == ParseValue(ts, i)
    IN  IF ~v.ok \/ v.next > Len(ts) THEN NoParse
        ELSE CASE ts[v.next] = "," -> ParseElements(ts, v.next + 1, Append(acc, v.value))
               [] ts[v.next] = "]" ->
                    [ok |-> TRUE, value |-> [t |-> "arr", items |-> Append(acc, v.value)],
                     next |-> v.next + 1]
               [] OTHER -> NoParse

\* a key that is repeated keeps its last value
ParseMembers(ts, i, acc) ==
    IF i > Len(ts) \/ ts[i] # "k:" THEN NoParse
    ELSE LET v == ParseValue(ts, i + 1)
         IN  IF ~v.ok \/ v.next > Len(ts) THEN NoParse
             ELSE CASE ts[v.next] = "," -> ParseMembers(ts, v.next + 1, <<v.value>>)
                    [] ts[v.next] = "}" ->
                         [ok |-> TRUE, value |-> [t |-> "obj", items |-> <<v.value>>],
                          next |-> v.next + 1]
                    [] OTHER -> NoParse

\* json.loads: the whole text must be one value; ok = FALSE is its exception
JsonLoads(ts) ==
    LET r == ParseValue(ts, 1)
    IN  IF r.ok /\ r.next = Len(ts) + 1
        THEN [ok |-> TRUE, value |-> r.value]
        ELSE [ok |-> FALSE, value |-> NullJson]

RECURSIVE Serialize(_)
\* json.dumps
Serialize(v) ==
    CASE v.t = "num" -> <<"1">>
      [] v.t = "str" -> <<"s">>
      [] v.t = "null" -> <<"null">>
      [] v.t = "arr" ->
            CASE Len(v.items) = 0 -> <<"[", "]">>
              [] Len(v.items) = 1 -> <<"[">> \o Serialize(v.items[1]) \o <<"]">>
              [] OTHER -> <<"[">> \o Serialize(v.items[1]) \o <<",">>
                              \o Serialize(v.items[2]) \o <<"]">>
      [] OTHER ->
            IF Len(v.items) = 0 THEN <<"{", "}">>
            ELSE <<"{", "k:">> \o Serialize(v.items[1]) \o <<"}">>

\* indices of ts, for the searches below
Positions(ts) == 1..Len(ts)

RECURSIVE DropCommas(_, _)
\* re.sub of a comma right before the closer by the closer alone
DropCommas(ts, closer) ==
    IF ts = <<>> THEN <<>>
    ELSE IF ts[1] = "," /\ Len(ts) > 1 /\ ts[2] = closer
         THEN DropCommas(Tail(ts), closer)
         ELSE <<ts[1]>> \o DropCommas(Tail(ts), closer)

\* _clean_json: the commas right before a closing brace, then those right
\* before a closing bracket, are removed
CleanJson(ts) == DropCommas(DropCommas(ts, "}"), "]")

Closer(open) == IF open = "[" THEN "]" ELSE "}"

\* line 106: the leftmost fence followed by a bracket for which a matching
\* closer followed by a fence exists; the group ends at the nearest such closer
FencedGroup(ts) ==
    LET ends(i) == { j \in Positions(ts) :
                       /\ j > i + 1 /\ j < Len(ts)
                       /\ ts[j] = Closer(ts[i + 1]) /\ ts[j + 1] = "fence" }
        starts == { i \in Positions(ts) :
                      /\ i + 1 <= Len(ts)
                      /\ ts[i] = "fence" /\ ts[i + 1] \in {"[", "{"}
                      /\ ends(i) # {} }
    IN  IF starts = {} THEN [found |-> FALSE, group |-> <<>>]
        ELSE LET i == CHOOSE a \in starts : \A b \in starts : a <= b
                 j == CHOOSE a \in ends(i) : \A b \in ends(i) : a <= b
             IN  [found |-> TRUE, group |-> SubSeq(ts, i + 1, j)]

\* lines 117 and 141: from the first opening bracket to the last closing one
GreedyGroup(ts, open) ==
    LET opens == { i \in Positions(ts) : ts[i] = open }
        first == CHOOSE a \in opens : \A b \in opens : a <= b
        closes == { j \in Positions(ts) : ts[j] = Closer(open) /\ opens # {} /\ j > first }
    IN  IF opens = {} \/ closes = {} THEN [found |-> FALSE, group |-> <<>>]
        ELSE [found |-> TRUE,
              group |-> SubSeq(ts, first, CHOOSE a \in closes : \A b \in closes : a >= b)]

\* lines 123-134: the text is cut after the bracket that closes the first one
CutAtBalance(ts, open) ==
    LET depth[i \in 0..Len(ts)] ==
            IF i = 0 THEN 0
            ELSE depth[i - 1] + (IF ts[i] = open THEN 1
                                 ELSE IF ts[i] = Closer(open) THEN -1 ELSE 0)
        balanced == { i \in Positions(ts) : ts[i] = Closer(open) /\ depth[i] = 0 }
    IN  IF balanced = {} THEN ts
        ELSE SubSeq(ts, 1, CHOOSE a \in balanced : \A b \in balanced : a <= b)

\* One parse attempt of extract_json: tried says whether json.loads ran, ok
\* whether it returned; raised says whether its exception left extract_json.
Attempt(tried, loaded) ==
    [tried |-> tried, ok |-> loaded.ok, value |-> loaded.value, raised |-> FALSE]

DirectParse_uncaught(ts) ==
    [tried |-> TRUE, ok |-> JsonLoads(ts).ok, value |-> JsonLoads(ts).value,
     raised |-> ~JsonLoads(ts).ok]

\* lines 100-103
DirectParse(ts) == Attempt(TRUE, JsonLoads(ts))

\* lines 106-114
FencedParse(ts) ==
    LET m == FencedGroup(ts)
    IN  Attempt(m.found, JsonLoads(CleanJson(m.group)))

\* lines 117-138 for "[", lines 141-162 for "{"
BracketParse(ts, open) ==
    LET m == GreedyGroup(ts, open)
    IN  Attempt(m.found, JsonLoads(CutAtBalance(CleanJson(m.group), open)))

ExtractJson_searchonly(ts) ==
    LET returns(v) == [raised |-> FALSE, value |-> v]
    IN  CASE ts = <<>> \/ ts[1] = "Error:" -> returns(NullJson)
          [] OTHER ->
               LET fenced == FencedParse(ts)
                   array == BracketParse(ts, "[")
                   object == BracketParse(ts, "{")
               IN  CASE fenced.tried /\ fenced.ok -> returns(fenced.value)
                     [] array.tried /\ array.ok -> returns(array.value)
                     [] object.tried /\ object.ok -> returns(object.value)
                     [] OTHER -> returns(NullJson)

\* LLM.extract_json: None is the null value
ExtractJson(ts) ==
    LET returns(v) == [raised |-> FALSE, value |-> v]
    IN  CASE ts = <<>> \/ ts[1] = "Error:" -> returns(NullJson)
          [] OTHER ->
               LET direct == DirectParse(ts)
                   fenced == FencedParse(ts)
                   array == BracketParse(ts, "[")
                   object == BracketParse(ts, "{")
               IN  CASE direct.raised -> [raised |-> TRUE, value |-> NullJson]
                     [] direct.ok -> returns(direct.value)
                     [] fenced.tried /\ fenced.ok -> returns(fenced.value)
                     [] array.tried /\ array.ok -> returns(array.value)
                     [] object.tried /\ object.ok -> returns(object.value)
                     [] OTHER -> returns(NullJson)

\* What generate_content gives LLM.call.
LLMOutcomes ==
    { [kind |-> k] : k \in {"text", "parts", "empty", "no_candidates",
                            "max_tokens", "safety", "exception"} }

ErrorText == <<"Error:", "w">>

\* LLM.call (llm.py 41-90): the generated text, or an "Error:" string
LLMCall(o, generated) ==
    IF o.kind \in {"text", "parts"} /\ generated # <<>> THEN generated ELSE ErrorText

\* ----------------------------------------------------------- paper search
\* the platforms search_all knows
Sources == {"arxiv", "pwc", "hf", "pubmed", "biorxiv", "ssrn", "core"}

\* The sets a caller enables: none, one platform, the first three, all of
\* them, and a name search_all does not know.
EnabledSets == {{}, {"arxiv"}, {"arxiv", "pwc", "hf"}, Sources, {"other"}}

\* What the network gives a search of papers by topic.
\* batch_timeout: a platform's task is still running when the 30 s of
\* as_completed are over.
TopicSearchOutcomes ==
    { [status |-> "http_error", n |-> 0], [status |-> "batch_timeout", n |-> 0] }
      \cup { [status |-> "ok", n |-> k] : k \in PaperCounts \cup {0} }

\* search_all (multi_platform.py 85-124): one task per enabled platform; a
\* task that fails yields no papers; ThreadPoolExecutor(max_workers=0) is a
\* ValueError
SearchAll(enabled_sources, o) ==
    IF enabled_sources \cap Sources = {} \/ o.status = "batch_timeout"
    THEN [raised |-> TRUE, n |-> 0]
    ELSE [raised |-> FALSE, n |-> IF o.status = "ok" THEN o.n ELSE 0]

\* no task is submitted
NoFutures == [s \in Sources |-> "none"]

\* how a submitted task ends: it returns its papers, or it raises
TaskOutcomes == {"done", "error"}

\* the tasks search_all submits for a set of enabled names (lines 91-113)
Submitted(enabled_sources) ==
    [s \in Sources |-> IF s \in enabled_sources THEN "running" ELSE "none"]

\* the tasks as_completed has not yielded yet
Uncollected == { s \in Sources : futures[s] \in {"running", "done", "error"} }

\* ResearchAgent.search_papers: multi says `use_multi and self.multi_scraper`
SearchPapersResult(multi, enabled_sources, o) ==
    IF multi
    THEN SearchAll(enabled_sources, o)
    ELSE [raised |-> FALSE, n |-> IF o.status = "ok" THEN o.n ELSE 0]

CallerProceeds_always(ps) == TRUE

\* `if not papers:` in demo.py 38 and app.py 2057
CallerProceeds(ps) == Len(ps) > 0

\* ------------------------------------------------------ search keywords
\* Strings are sequences of characters here.
Whitespace == {" ", "\t", "\n"}

\* str.lower on the letters the inputs use
Lower(c) ==
    CASE c = "G" -> "g"
      [] c = "N" -> "n"
      [] c = "T" -> "t"
      [] OTHER -> c

LowerAll(cs) == [i \in 1..Len(cs) |-> Lower(cs[i])]

\* the position of the first whitespace character of cs, or Len(cs) + 1
FirstWhitespace(cs) ==
    IF \E i \in 1..Len(cs) : cs[i] \in Whitespace
    THEN CHOOSE i \in 1..Len(cs) :
            cs[i] \in Whitespace /\ \A j \in 1..(i - 1) : cs[j] \notin Whitespace
    ELSE Len(cs) + 1

\* str.split() without arguments
RECURSIVE Split(_)
Split(cs) ==
    IF cs = <<>> THEN <<>>
    ELSE IF cs[1] \in Whitespace THEN Split(Tail(cs))
    ELSE LET e == FirstWhitespace(cs)
         IN  <<SubSeq(cs, 1, e - 1)>> \o Split(SubSeq(cs, e, Len(cs)))

\* " ".join(terms)
RECURSIVE Join(_)
Join(terms) ==
    IF terms = <<>> THEN <<>>
    ELSE IF Len(terms) = 1 THEN terms[1]
    ELSE terms[1] \o <<" ">> \o Join(Tail(terms))

\* line 1071
filler ==
    { <<"t", "h", "e">>,
      <<"a">>,
      <<"a", "n">>,
      <<"i", "s">>,
      <<"a", "r", "e">>,
      <<"b", "u", "t">>,
      <<"h", "a", "s">>,
      <<"h", "a", "v", "e">>,
      <<"t", "h", "i", "s">>,
      <<"t", "h", "a", "t">>,
      <<"t", "h", "e", "s", "e">>,
      <<"t", "h", "o", "s", "e">>,
      <<"b", "e", "e", "n">>,
      <<"b", "e", "i", "n", "g">> }

Combined_gap_first(gap, title) == Take(gap \o <<" ">> \o title, KeywordWindow)

\* line 1068: the title, a space and the gap, cut to 150 characters
Combined(gap, title) == Take(title \o <<" ">> \o gap, KeywordWindow)

\* line 1073: the test each word must pass
IsKeyword(w) == Len(w) > ShortWordLength /\ w \notin filler

\* lines 1072-1076: search_terms
SearchTerms(gap, title, topic) ==
    LET combined == Combined(gap, title)
        words == Split(LowerAll(combined))
        keywords == SelectSeq(words, IsKeyword)
    IN  Take(keywords, KeywordCap) \o <<topic>>

\* a run of n characters without whitespace
Pad(n) == [i \in 1..n |-> "x"]

\* the words titles are made of: a filler word, keywords, a short word, a word
\* pair parted by a tab, and a run that reaches close to the 150-character cut
TitleWords ==
    { <<"T", "h", "e", "s", "e">>,
      <<"N", "o", "v", "e", "l">>,
      <<"G", "N", "N">>,
      <<"g", "r", "a", "p", "h", "\t", "t", "r", "a", "n", "s", "f", "o", "r", "m", "e", "r", "s">>,
      Pad(KeywordWindow - 13) }

TitleTexts == { Join(ws) : ws \in SeqsUpTo(TitleWords, MaxWords) }

GapTexts ==
    { <<>>,
      <<"t", "h", "e", " ", "d", "a", "t", "a", " ", "i", "s", " ", "s", "p", "a", "r", "s", "e">>,
      <<"N", "e", "u", "r", "a", "l", " ", "m", "o", "d", "e", "l", "s", " ", "b", "e", "i", "n", "g", " ", "s", "l", "o", "w", " ", "t", "h", "o", "s", "e", " ", "l", "a", "r", "g", "e", " ", "s", "p", "a", "r", "s", "e", " ", "g", "r", "a", "p", "h", "s", " ", "i", "g", "n", "o", "r", "e", " ", "s", "t", "r", "u", "c", "t", "u", "r", "e">>,
      <<" ", " ", "n", "e", "u", "r", "a", "l", " ", "\n">> }

TopicTexts == { <<>>, <<"g", "r", "a", "p", "h", " ", "l", "e", "a", "r", "n", "i", "n", "g">> }

\* no call of _extract_search_keywords is modelled
UnusedKeywords ==
    /\ keyword_title_text = <<>>
    /\ keyword_gap_text = <<>>
    /\ keyword_topic = <<>>
    /\ search_terms = <<>>
    /\ search_query = <<>>

\* ---------------------------------------------------------- field context
\* generate_field_context and the research-intelligence calls after it return,
\* with the LLM answering or failing in both of generate_field_context's calls,
\* or one of them raises
IntelligenceOutcomes == {"ok", "llm_error", "raise"}

\* what LLM.call returns when the request fails (llm.py 57, 83-90)
ErrorString == "Error: No candidates in response"

\* text.startswith("Error:")
IsErrorString(s) == s = ErrorString

\* research_intelligence.py 267-298: the answer of the first call, or of the
\* second one when the first is shorter than 200 characters; an error string
\* is short, and is returned when the second call fails as well
GenerateFieldContext(topic, o) ==
    IF o = "llm_error" THEN ErrorString ELSE "field context for " \o topic

Topics == {"", "topic"}

\* generate_insights, lines 1212-1234
FieldContext(ri, topic, o, old) ==
    IF ri /\ topic # ""
    THEN IF o \in {"ok", "llm_error"} THEN GenerateFieldContext(topic, o) ELSE ""
    ELSE old

\* which call wrote the value FieldContext leaves in self.field_context
ContextCall(ri, topic, o, old) ==
    IF ri /\ topic # ""
    THEN IF o \in {"ok", "llm_error"} THEN "this" ELSE "none"
    ELSE IF old = "" THEN "none" ELSE "earlier"

\* ---------------------------------------------------------------- actions
NoJudgement == NoMapping("null")

\* A ResearchAgent right after __init__, with or without the
\* research-intelligence module.
Init ==
    /\ pc = "idle"
    /\ papers = <<>>
    /\ papers_for_agents = <<>>
    /\ analyzer_received = <<>>
    /\ skeptic_received = <<>>
    /\ gaps = <<>>
    /\ conversation_log = <<>>
    /\ insights = <<>>
    /\ pre_validation = <<>>
    /\ vi = 0
    /\ vphase = "none"
    /\ challenge_papers = 0
    /\ validation = NoJudgement
    /\ validated_insights = <<>>
    /\ validation_stats = NoStats
    /\ calls = <<>>
    /\ branch = <<>>
    /\ research_intelligence \in BOOLEAN
    /\ field_context = ""
    /\ context_call = "none"
    /\ papers_for_intelligence = <<>>
    /\ result = NoResult
    /\ stage_result = NoStageResult
    /\ futures = NoFutures
    /\ UnusedKeywords
    /\ results = <<>>
    /\ text = <<>>
    /\ json_value = NullJson

\* The caller (demo.py 36, app.py 2043) searches papers for its topic; what an
\* earlier run left in the caller is gone.
SearchPapers(multi, enabled_sources, o) ==
    /\ pc \in {"idle", "done", "raised", "no_papers", "search_raised"}
    /\ LET found == SearchPapersResult(multi, enabled_sources, o)
       IN  IF found.raised
           THEN papers' = <<>> /\ pc' = "search_raised"
           ELSE papers' = PaperList(found.n) /\ pc' = "searched"
    /\ papers_for_agents' = <<>>
    /\ analyzer_received' = <<>>
    /\ skeptic_received' = <<>>
    /\ gaps' = <<>>
    /\ insights' = <<>>
    /\ pre_validation' = <<>>
    /\ vi' = 0
    /\ vphase' = "none"
    /\ challenge_papers' = 0
    /\ validation' = NoJudgement
    /\ validated_insights' = <<>>
    /\ validation_stats' = NoStats
    /\ calls' = <<>>
    /\ branch' = <<>>
    /\ result' = NoResult
    /\ stage_result' = NoStageResult
    /\ UNCHANGED <<conversation_log, agent_vars, client_vars, search_vars, keyword_vars>>

\* The caller's branch on an empty list (demo.py 38-40, app.py 2057-2059): the
\* message is shown and generate_insights is not called.
NoPapersFound ==
    /\ pc = "searched"
    /\ ~CallerProceeds(papers)
    /\ pc' = "no_papers"
    /\ UNCHANGED <<papers, papers_for_agents, analyzer_received, skeptic_received,
                   gaps, conversation_log, insights, pre_validation, validate_vars,
                   agent_vars, result, stage_result, client_vars, search_vars, keyword_vars>>

\* generate_insights is entered: the log is cleared, the agent sample is taken
\* and the field context is generated when there is a module and a topic.
Start(topic, o, random_indices) ==
    /\ pc = "searched"
    /\ CallerProceeds(papers)
    /\ papers_for_agents' = PapersForAgents(papers)
    /\ papers_for_intelligence' = PapersForIntelligence(papers, random_indices)
    /\ conversation_log' = ClearLog(conversation_log)
    /\ field_context' = FieldContext(research_intelligence, topic, o, field_context)
    /\ context_call' = ContextCall(research_intelligence, topic, o, field_context)
    /\ pc' = "analyzer"
    /\ UNCHANGED <<papers, analyzer_received, skeptic_received, gaps, insights,
                   pre_validation, validate_vars, research_intelligence, result,
                   stage_result, client_vars, search_vars, keyword_vars>>

\* Agent 1 is called on the agent sample; its LLM answer goes through
\* extract_json.
CallAnalyzer(a) ==
    /\ pc = "analyzer"
    /\ analyzer_received' = papers_for_agents
    /\ result' = a
    /\ pc' = "analyzing"
    /\ UNCHANGED <<papers, papers_for_agents, skeptic_received, gaps,
                   conversation_log, insights, pre_validation, validate_vars,
                   agent_vars, stage_result, client_vars, search_vars, keyword_vars>>

\* analyze_papers normalises and returns; generate_insights reads the gaps and
\* logs turn 1 (lines 1237-1257).
Analyze ==
    /\ pc = "analyzing"
    /\ result' = NoResult
    /\ IF AnalyzePapersRaises(result)
       THEN /\ pc' = "raised"
            /\ UNCHANGED <<stage_result, gaps, conversation_log>>
       ELSE LET analyzer_result == AnalyzePapers(result, analyzer_received)
            IN  /\ stage_result' = analyzer_result
                /\ IF GapsLogRaises(analyzer_result.output)
                   THEN /\ pc' = "raised"
                        /\ UNCHANGED <<gaps, conversation_log>>
                   ELSE /\ gaps' = GapsOf(analyzer_result.output)
                        /\ conversation_log' =
                              Append(conversation_log, LogEntry(1, "Analyzer", <<>>))
                        /\ pc' = "skeptic"
    /\ UNCHANGED <<papers, papers_for_agents, analyzer_received, skeptic_received,
                   insights, pre_validation, validate_vars, agent_vars, client_vars, search_vars, keyword_vars>>

\* Agent 2 is called on the same sample.
CallSkeptic(c) ==
    /\ pc = "skeptic"
    /\ skeptic_received' = papers_for_agents
    /\ result' = c
    /\ pc' = "critiquing"
    /\ UNCHANGED <<papers, papers_for_agents, analyzer_received, gaps,
                   conversation_log, insights, pre_validation, validate_vars,
                   agent_vars, stage_result, client_vars, search_vars, keyword_vars>>

\* critique normalises and returns; generate_insights logs turn 2
\* (lines 1260-1298).
Critique ==
    /\ pc = "critiquing"
    /\ result' = NoResult
    /\ IF CritiqueRaises(result)
       THEN /\ pc' = "raised"
            /\ UNCHANGED <<stage_result, conversation_log>>
       ELSE LET skeptic_result == CritiqueOf(result, field_context)
            IN  /\ stage_result' = skeptic_result
                /\ IF ContradictionsLogRaise(skeptic_result.output)
                   THEN /\ pc' = "raised"
                        /\ UNCHANGED conversation_log
                   ELSE /\ conversation_log' =
                              Append(conversation_log,
                                     LogEntry(2, "Skeptic", <<"Analyzer">>))
                        /\ pc' = "synthesizer"
    /\ UNCHANGED <<papers, papers_for_agents, analyzer_received, skeptic_received,
                   gaps, insights, pre_validation, validate_vars, agent_vars, client_vars, search_vars, keyword_vars>>

\* Agent 3 builds its prompt from the gaps and the contradictions and calls
\* the LLM (lines 381-600).
CallSynthesizer(r) ==
    /\ pc = "synthesizer"
    /\ IF ContradictionsPromptRaise(stage_result.output)
       THEN pc' = "raised" /\ UNCHANGED result
       ELSE pc' = "synthesizing" /\ result' = r
    /\ UNCHANGED <<papers, papers_for_agents, analyzer_received, skeptic_received,
                   gaps, conversation_log, insights, pre_validation, validate_vars,
                   agent_vars, stage_result, client_vars, search_vars, keyword_vars>>

\* synthesize cleans the insights or falls back; generate_insights logs turn 3
\* and enters validate with the insight dicts (lines 604-702, 1302-1333).
Synthesize ==
    /\ pc = "synthesizing"
    /\ result' = NoResult
    /\ stage_result' = NoStageResult
    /\ IF DialogueMessagesRaise(result)
       THEN /\ pc' = "raised"
            /\ UNCHANGED <<insights, pre_validation, conversation_log, validate_vars>>
       ELSE /\ LET out == Synthesized(result, papers_for_agents, gaps)
               IN  /\ insights' = out
                   /\ pre_validation' = out
                   /\ branch' = [i \in 1..Len(out) |-> "pending"]
            /\ conversation_log' =
                  Append(conversation_log,
                         LogEntry(3, "Synthesizer", <<"Analyzer", "Skeptic">>))
            /\ vi' = 1
            /\ vphase' = "search"
            /\ UNCHANGED <<challenge_papers, validation>>
            /\ validated_insights' = <<>>
            /\ validation_stats' = NoStats
            /\ calls' = <<>>
            /\ pc' = "validator"
    /\ UNCHANGED <<papers, papers_for_agents, analyzer_received,
                   skeptic_received, gaps, agent_vars, client_vars, search_vars, keyword_vars>>


NoChallenge_never(n) == FALSE

\* line 815: if not challenge_papers or len(challenge_papers) == 0
NoChallenge(n) == n = 0

\* line 809: search_arxiv was called for insight i; found tells whether validate
\* was left with at least one challenge paper
SearchCall(i, n) == [op |-> "search", insight |-> i, found |-> n > 0]

\* line 911: self.llm.call was called for insight i
LLMCallFor(i) == [op |-> "llm", insight |-> i, found |-> FALSE]

\* validate's loop, lines 792-821: search challenge papers for insight vi; with
\* none found the insight survives by default and the loop goes on.
SearchChallenge(o) ==
    /\ pc = "validator" /\ vphase = "search"
    /\ vi <= Len(insights)
    /\ LET found == ChallengePapers(o)
       IN  CASE found.raised ->
                  /\ pc' = "raised"
                  /\ UNCHANGED <<insights, validated_insights, validation_stats, vi,
                                 vphase, challenge_papers, branch, calls>>
             [] ~found.raised /\ NoChallenge(found.n) ->
                  /\ calls' = Append(calls, SearchCall(vi, found.n))
                  /\ insights' = [insights EXCEPT ![vi] = DefaultSurvive(insights[vi])]
                  /\ validated_insights' = Append(validated_insights, vi)
                  /\ validation_stats' = [validation_stats EXCEPT !.survived = @ + 1]
                  /\ branch' = [branch EXCEPT ![vi] =
                                  IF o.status = "ok" THEN "default" ELSE "search_failed"]
                  /\ vi' = vi + 1
                  /\ UNCHANGED <<pc, vphase, challenge_papers>>
             [] OTHER ->
                  /\ calls' = Append(calls, SearchCall(vi, found.n))
                  /\ challenge_papers' = found.n
                  /\ vphase' = "call"
                  /\ UNCHANGED <<pc, insights, validated_insights, validation_stats,
                                 vi, branch>>
    /\ UNCHANGED <<papers, papers_for_agents, analyzer_received, skeptic_received,
                   gaps, conversation_log, pre_validation, validation,
                   agent_vars, result, stage_result, client_vars, search_vars, keyword_vars>>

\* lines 823-912: the prompt is built and the LLM's answer goes through
\* extract_json.
CallLLM(j) ==
    /\ pc = "validator" /\ vphase = "call"
    /\ validation' = j
    /\ calls' = Append(calls, LLMCallFor(vi))
    /\ vphase' = "decide"
    /\ UNCHANGED <<pc, papers, papers_for_agents, analyzer_received, skeptic_received,
                   gaps, conversation_log, insights, pre_validation, vi,
                   challenge_papers, validated_insights, validation_stats, branch,
                   agent_vars, result, stage_result, client_vars, search_vars, keyword_vars>>

\* lines 914-988: normalise the judgement and keep, refine or reject the
\* insight.  The per-iteration locals are dead once the iteration ends.
Decide ==
    /\ pc = "validator" /\ vphase = "decide"
    /\ LET v == NormalizeValidation(validation)
           x == insights[vi]
       IN  CASE ParsingFailed(v) ->
                  /\ insights' = [insights EXCEPT ![vi] = InconclusiveSurvive(x)]
                  /\ validated_insights' = Append(validated_insights, vi)
                  /\ validation_stats' = [validation_stats EXCEPT !.survived = @ + 1]
                  /\ branch' = [branch EXCEPT ![vi] = "inconclusive"]
                  /\ vi' = vi + 1 /\ vphase' = "search"
                  /\ challenge_papers' = 0 /\ validation' = NoJudgement
                  /\ pc' = pc
             [] ~ParsingFailed(v) /\ JudgementRaises(v) ->
                  /\ pc' = "raised"
                  /\ UNCHANGED <<insights, validated_insights, validation_stats, vi,
                                 vphase, challenge_papers, validation, branch>>
             [] ~ParsingFailed(v) /\ ~JudgementRaises(v) /\ Survives(v) ->
                  /\ insights' = [insights EXCEPT ![vi] = JudgedSurvive(x, v)]
                  /\ validated_insights' = Append(validated_insights, vi)
                  /\ validation_stats' =
                        IF HasRefinement(v)
                        THEN [validation_stats EXCEPT !.refined = @ + 1]
                        ELSE [validation_stats EXCEPT !.survived = @ + 1]
                  /\ branch' = [branch EXCEPT ![vi] = "survived"]
                  /\ vi' = vi + 1 /\ vphase' = "search"
                  /\ challenge_papers' = 0 /\ validation' = NoJudgement
                  /\ pc' = pc
             [] OTHER ->
                  /\ validation_stats' = [validation_stats EXCEPT !.rejected = @ + 1]
                  /\ branch' = [branch EXCEPT ![vi] = "rejected"]
                  /\ vi' = vi + 1 /\ vphase' = "search"
                  /\ challenge_papers' = 0 /\ validation' = NoJudgement
                  /\ pc' = pc
                  /\ UNCHANGED <<insights, validated_insights>>
    /\ UNCHANGED <<papers, papers_for_agents, analyzer_received, skeptic_received,
                   gaps, conversation_log, pre_validation, calls,
                   agent_vars, result, stage_result, client_vars, search_vars, keyword_vars>>

\* The end of validate (lines 990-1003): the terminal fallback and the return.
ValidatorReturn ==
    /\ pc = "validator" /\ vphase = "search"
    /\ vi > Len(insights)
    /\ IF NeedsFallback(validated_insights, insights)
       THEN LET best == BestInsight(insights)
            IN  /\ insights' = [insights EXCEPT ![best] = Resurrect(insights[best])]
                /\ validated_insights' = <<best>>
       ELSE UNCHANGED <<insights, validated_insights>>
    /\ pc' = "validated"
    /\ vphase' = "none"
    /\ UNCHANGED <<papers, papers_for_agents, analyzer_received, skeptic_received,
                   gaps, conversation_log, pre_validation, vi, challenge_papers,
                   validation, validation_stats, branch, calls,
                   agent_vars, result, stage_result, client_vars, search_vars, keyword_vars>>

\* generate_insights after validate (lines 1334-1365): log turn 4 and return
\* validated_insights.
Finish ==
    /\ pc = "validated"
    /\ conversation_log' = Append(conversation_log,
                                  LogEntry(4, "Validator", <<"Synthesizer">>))
    /\ pc' = "done"
    /\ UNCHANGED <<papers, papers_for_agents, analyzer_received, skeptic_received,
                   gaps, insights, pre_validation, validate_vars,
                   agent_vars, result, stage_result, client_vars, search_vars, keyword_vars>>

ValidateNext ==
    \/ \E o \in SearchOutcomes : SearchChallenge(o)
    \/ \E j \in Judgements : CallLLM(j)
    \/ Decide
    \/ ValidatorReturn

\* every way search_papers can be called
AllSearchCalls == [multi : BOOLEAN, enabled_sources : EnabledSets, o : TopicSearchOutcomes]

\* one call for each result search_papers can give: calls with the same result
\* lead to the same state
SearchCalls ==
    { CHOOSE c \in AllSearchCalls : SearchPapersResult(c.multi, c.enabled_sources, c.o) = r :
        r \in { SearchPapersResult(c.multi, c.enabled_sources, c.o) : c \in AllSearchCalls } }

Next ==
    \/ \E c \in SearchCalls : SearchPapers(c.multi, c.enabled_sources, c.o)
    \/ NoPapersFound
    \/ \E topic \in Topics, o \in IntelligenceOutcomes, random_indices \in RandomIndices(papers) :
          Start(topic, o, random_indices)
    \/ \E a \in AnalyzerResults : CallAnalyzer(a)
    \/ Analyze
    \/ \E c \in SkepticResults : CallSkeptic(c)
    \/ Critique
    \/ \E r \in SynthResults : CallSynthesizer(r)
    \/ Synthesize
    \/ ValidateNext
    \/ Finish

\* The whole pipeline: generate_insights called any number of times.
Spec == Init /\ [][Next]_vars

\* An insight that went through an earlier validation and was kept.
Revalidated ==
    [Insight("llm title", "observation text", "gap text", Num(50)) EXCEPT
        !.validated = "True", !.survival_score = Num(DefaultSurviveScore),
        !.validation_evidence = "No contradicting prior work found"]

\* Insight dicts handed to validate by a direct caller.
BatchInsights == LLMInsights \cup {PromotedString, Revalidated}

InitValidate ==
    /\ pc = "validator"
    /\ papers = <<>>
    /\ papers_for_agents = <<>>
    /\ analyzer_received = <<>>
    /\ skeptic_received = <<>>
    /\ gaps = <<>>
    /\ conversation_log = <<>>
    /\ insights \in SeqsUpTo(BatchInsights, MaxBatch)
    /\ pre_validation = insights
    /\ vi = 1
    /\ vphase = "search"
    /\ challenge_papers = 0
    /\ validation = NoJudgement
    /\ validated_insights = <<>>
    /\ validation_stats = NoStats
    /\ calls = <<>>
    /\ branch = [i \in 1..Len(insights) |-> "pending"]
    /\ research_intelligence = FALSE
    /\ field_context = ""
    /\ context_call = "none"
    /\ papers_for_intelligence = <<>>
    /\ result = NoResult
    /\ stage_result = NoStageResult
    /\ futures = NoFutures
    /\ UnusedKeywords
    /\ results = <<>>
    /\ text = <<>>
    /\ json_value = NullJson

\* ValidatorAgent.validate called on its own with any list of insight dicts.
SpecValidate == InitValidate /\ [][ValidateNext]_vars

\* JSON values in their serialization, bare, inside prose, inside a fence
Wrapped(ts) ==
    { ts, <<"w">> \o ts \o <<"w">>, <<"fence">> \o ts \o <<"fence">>,
      <<"w", "fence">> \o ts \o <<"fence", "w">> }

GeneratedTexts ==
    {<<>>, <<"w", "w">>}
      \cup UNION { Wrapped(Serialize(v)) : v \in JsonValues(MaxDepth) }

\* every short text, and the generated ones
TextInputs == SeqsUpTo(Tokens, MaxTextLen) \cup GeneratedTexts

\* A client of llm.py: it calls the LLM and extracts from the answer, or
\* extracts from a text of its own, or from the serialization of a value.
InitClient ==
    /\ \/ pc = "call" /\ text = <<>> /\ json_value = NullJson
       \/ pc = "extract" /\ text \in TextInputs /\ json_value = NullJson
       \/ pc = "serialize" /\ text = <<>> /\ json_value \in JsonValues(MaxDepth)
    /\ papers = <<>>
    /\ papers_for_agents = <<>>
    /\ analyzer_received = <<>>
    /\ skeptic_received = <<>>
    /\ gaps = <<>>
    /\ conversation_log = <<>>
    /\ insights = <<>>
    /\ pre_validation = <<>>
    /\ vi = 0
    /\ vphase = "none"
    /\ challenge_papers = 0
    /\ validation = NoJudgement
    /\ validated_insights = <<>>
    /\ validation_stats = NoStats
    /\ calls = <<>>
    /\ branch = <<>>
    /\ research_intelligence = FALSE
    /\ field_context = ""
    /\ context_call = "none"
    /\ papers_for_intelligence = <<>>
    /\ result = NoResult
    /\ stage_result = NoStageResult
    /\ futures = NoFutures
    /\ UnusedKeywords
    /\ results = <<>>

pipeline_vars ==
    <<papers, papers_for_agents, analyzer_received, skeptic_received, gaps,
      conversation_log, insights, pre_validation, validate_vars, agent_vars,
      stage_result>>

\* LLM.call returns its text
CallLLMClient(o, generated) ==
    /\ pc = "call"
    /\ text' = LLMCall(o, generated)
    /\ pc' = "extract"
    /\ UNCHANGED <<pipeline_vars, search_vars, keyword_vars, result, json_value>>

\* json.dumps of the value
SerializeValue ==
    /\ pc = "serialize"
    /\ text' = Serialize(json_value)
    /\ pc' = "roundtrip"
    /\ UNCHANGED <<pipeline_vars, search_vars, keyword_vars, result, json_value>>

\* extract_json on the text
Extract ==
    /\ pc \in {"extract", "roundtrip"}
    /\ LET out == ExtractJson(text)
       IN  /\ result' = [shape |-> "extracted", raised |-> out.raised, value |-> out.value]
           /\ pc' = CASE out.raised -> "raised"
                      [] pc = "roundtrip" -> "roundtripped"
                      [] OTHER -> "extracted"
    /\ UNCHANGED <<pipeline_vars, client_vars, search_vars, keyword_vars>>

ClientNext ==
    \/ \E o \in LLMOutcomes, generated \in GeneratedTexts : CallLLMClient(o, generated)
    \/ SerializeValue
    \/ Extract

SpecClient == InitClient /\ [][ClientNext]_vars

\* search_all as its threads run it: the tasks of the enabled platforms end in
\* any order, as_completed yields the ended ones, and its 30 s can run out
\* while a task is still running.
InitSearch ==
    /\ pc = "search_all"
    /\ papers = <<>>
    /\ papers_for_agents = <<>>
    /\ analyzer_received = <<>>
    /\ skeptic_received = <<>>
    /\ gaps = <<>>
    /\ conversation_log = <<>>
    /\ insights = <<>>
    /\ pre_validation = <<>>
    /\ vi = 0
    /\ vphase = "none"
    /\ challenge_papers = 0
    /\ validation = NoJudgement
    /\ validated_insights = <<>>
    /\ validation_stats = NoStats
    /\ calls = <<>>
    /\ branch = <<>>
    /\ research_intelligence = FALSE
    /\ field_context = ""
    /\ context_call = "none"
    /\ papers_for_intelligence = <<>>
    /\ result = NoResult
    /\ stage_result = NoStageResult
    /\ futures = NoFutures
    /\ UnusedKeywords
    /\ results = <<>>
    /\ text = <<>>
    /\ json_value = NullJson

\* lines 85-113: the executor is created and one task per enabled platform is
\* submitted
SubmitTasks(enabled_sources) ==
    /\ pc = "search_all"
    /\ IF enabled_sources \cap Sources = {}
       THEN pc' = "search_raised" /\ UNCHANGED futures
       ELSE pc' = "fanout" /\ futures' = Submitted(enabled_sources)
    /\ UNCHANGED <<pipeline_vars, client_vars, result, results, keyword_vars>>

\* a platform's task ends in its thread
TaskEnds(s, o) ==
    /\ pc = "fanout"
    /\ futures[s] = "running"
    /\ futures' = [futures EXCEPT ![s] = o]
    /\ UNCHANGED <<pc, pipeline_vars, client_vars, result, results, keyword_vars>>

\* lines 115-122: as_completed yields an ended task; its papers are added to
\* the results, or its exception is printed
CollectResult(s) ==
    /\ pc = "fanout"
    /\ futures[s] \in TaskOutcomes
    /\ results' = IF futures[s] = "done" THEN Append(results, s) ELSE results
    /\ futures' = [futures EXCEPT ![s] = IF futures[s] = "done" THEN "collected"
                                         ELSE "failed"]
    /\ UNCHANGED <<pc, pipeline_vars, client_vars, result, keyword_vars>>

\* line 115: the 30 s of as_completed are over while a task is still running;
\* the TimeoutError leaves search_all and the collected results are lost
BatchTimeout ==
    /\ pc = "fanout"
    /\ \E s \in Sources : futures[s] = "running"
    /\ pc' = "search_raised"
    /\ results' = <<>>
    /\ UNCHANGED <<pipeline_vars, client_vars, result, futures, keyword_vars>>

\* line 124
ReturnResults ==
    /\ pc = "fanout"
    /\ Uncollected = {}
    /\ pc' = "search_returned"
    /\ UNCHANGED <<pipeline_vars, client_vars, result, search_vars, keyword_vars>>

SearchNext ==
    \/ \E enabled_sources \in EnabledSets : SubmitTasks(enabled_sources)
    \/ \E s \in Sources, o \in TaskOutcomes : TaskEnds(s, o)
    \/ \E s \in Sources : CollectResult(s)
    \/ BatchTimeout
    \/ ReturnResults

SpecSearch == InitSearch /\ [][SearchNext]_vars

\* ------------------------------------------- the search keywords alone
\* _extract_search_keywords is about to be called on a title, a gap and a topic
InitKeywords ==
    /\ pc = "extract_search_keywords"
    /\ papers = <<>>
    /\ papers_for_agents = <<>>
    /\ analyzer_received = <<>>
    /\ skeptic_received = <<>>
    /\ gaps = <<>>
    /\ conversation_log = <<>>
    /\ insights = <<>>
    /\ pre_validation = <<>>
    /\ vi = 0
    /\ vphase = "none"
    /\ challenge_papers = 0
    /\ validation = NoJudgement
    /\ validated_insights = <<>>
    /\ validation_stats = NoStats
    /\ calls = <<>>
    /\ branch = <<>>
    /\ research_intelligence = FALSE
    /\ field_context = ""
    /\ context_call = "none"
    /\ papers_for_intelligence = <<>>
    /\ result = NoResult
    /\ stage_result = NoStageResult
    /\ futures = NoFutures
    /\ results = <<>>
    /\ text = <<>>
    /\ json_value = NullJson
    /\ keyword_title_text \in TitleTexts
    /\ keyword_gap_text \in GapTexts
    /\ keyword_topic \in TopicTexts
    /\ search_terms = <<>>
    /\ search_query = <<>>

\* lines 1065-1077
ExtractSearchKeywords ==
    /\ pc = "extract_search_keywords"
    /\ search_terms' = SearchTerms(keyword_gap_text, keyword_title_text, keyword_topic)
    /\ search_query' = Join(search_terms')
    /\ pc' = "search_query"
    /\ UNCHANGED <<pipeline_vars, client_vars, search_vars, result, keyword_title_text,
                   keyword_gap_text, keyword_topic>>

KeywordsNext == ExtractSearchKeywords

SpecKeywords == InitKeywords /\ [][KeywordsNext]_vars

\* ------------------------------------------------------------- properties
Returned == pc \in {"validated", "done"}

\* positions where no call of generate_insights is running
BetweenCalls == {"idle", "searched", "no_papers", "search_raised", "done"}

ReturnedSet == { validated_insights[k] : k \in 1..Len(validated_insights) }

AllRejected == \A i \in 1..Len(insights) : branch[i] = "rejected"

ExpectedLog ==
    << LogEntry(1, "Analyzer", <<>>),
       LogEntry(2, "Skeptic", <<"Analyzer">>),
       LogEntry(3, "Synthesizer", <<"Analyzer", "Skeptic">>),
       LogEntry(4, "Validator", <<"Synthesizer">>) >>

\* C1: when generate_insights has returned, the conversation log holds
\* exactly the four entries of turns 1..4 for Analyzer, Skeptic, Synthesizer,
\* Validator in that order, each naming the agents it responds to; while the
\* call is running the log is the prefix of those entries for the stages done.
C1_TurnOrdering ==
    /\ pc = "done" => conversation_log = ExpectedLog
    /\ pc \notin BetweenCalls =>
          /\ Len(conversation_log) <= 3
          /\ conversation_log = SubSeq(ExpectedLog, 1, Len(conversation_log))

C1_Witness ==
    pc = "done" /\ Len(conversation_log) = 4 /\ conversation_log[4].agent = "Validator"

\* C2: once at least one insight was synthesized, validate and
\* generate_insights end by returning a non-empty list, whatever the paper
\* search and the LLM answered.
C2_NeverZeroInsights ==
    (Len(insights) >= 1 /\ pc \in {"validated", "done", "raised"}) =>
        (pc # "raised" /\ Len(validated_insights) >= 1)

\* C3: when every insight of the batch was rejected, validate returns exactly
\* one insight: the (first) input insight of highest novelty_score, changed
\* only in validated = False, survival_score = 5.0 and the evidence string.
C3_TerminalFallback ==
    (Returned /\ Len(insights) >= 1 /\ AllRejected) =>
        /\ Len(validated_insights) = 1
        /\ LET b == validated_insights[1]
           IN  /\ \A k \in 1..Len(pre_validation) :
                     NoveltyOf(pre_validation[k]) <= NoveltyOf(pre_validation[b])
               /\ insights[b] =
                     [pre_validation[b] EXCEPT
                        !.validated = "False",
                        !.survival_score = Num(50),
                        !.validation_evidence = "All insights were challenged"]

C3_Witness ==
    /\ Returned /\ AllRejected /\ Len(insights) = 2
    /\ NoveltyOf(pre_validation[1]) < NoveltyOf(pre_validation[2])
    /\ validated_insights = <<2>>

\* C4: an insight whose paper search gave zero results is returned, and it
\* equals the insight validate received except for validated = True,
\* survival_score = 8.5 and the fixed evidence string.
C4_DefaultSurvive ==
    Returned =>
        \A i \in 1..Len(insights) :
            branch[i] \in {"default", "search_failed"} =>
                /\ i \in ReturnedSet
                /\ insights[i] =
                      [pre_validation[i] EXCEPT
                         !.validated = "True",
                         !.survival_score = Num(85),
                         !.validation_evidence = "No contradicting prior work found"]

C4_Witness ==
    /\ Returned /\ Len(insights) = 2
    /\ branch[1] = "default" /\ branch[2] = "survived"
    /\ validated_insights = <<1, 2>>

\* A step of validate that decides on a parsed judgement: challenge papers
\* were found, extract_json produced a mapping (or a list led by one), and the
\* step did not raise.
ParsedJudgementStep ==
    /\ pc = "validator" /\ vphase = "decide"
    /\ validation.shape \in {"map", "list_map"}
    /\ pc' # "raised"

InReturnedNext == \E k \in 1..Len(validated_insights') : validated_insights'[k] = vi

C6_ValidatedScore ==
    Returned =>
        \A i \in ReturnedSet :
            insights[i].validated = "True" =>
                /\ insights[i].survival_score.t = "num"
                /\ insights[i].survival_score.v >= 60

C6_Witness ==
    /\ pc = "done" /\ Len(validated_insights) = 3
    /\ branch = <<"default", "inconclusive", "survived">>
    /\ insights[3].survival_score = Num(60)

\* C7: a returned insight with validated = False is the only returned insight
\* and then every insight of the batch was rejected; every other returned
\* insight has validated = True.
C7_UnvalidatedOnlyAlone ==
    Returned =>
        \A i \in ReturnedSet :
            /\ insights[i].validated \in {"True", "False"}
            /\ insights[i].validated = "False" =>
                  (Len(validated_insights) = 1 /\ AllRejected)

C7_Witness ==
    /\ Returned /\ Len(insights) = 2 /\ AllRejected
    /\ Len(validated_insights) = 1
    /\ insights[validated_insights[1]].validated = "False"

\* C8: when challenge papers were found and the judgement is null, not a
\* mapping, or a list without a leading mapping, the step does not raise and
\* the insight is kept with validated = True, survival_score = 7.0 and the
\* inconclusive evidence string; validation goes on with the next insight.
C8_Inconclusive ==
    [][(/\ pc = "validator" /\ vphase = "decide"
        /\ challenge_papers > 0
        /\ validation.shape \in {"null", "scalar", "list_empty", "list_scalar"}) =>
          /\ pc' = "validator" /\ vi' = vi + 1 /\ vphase' = "search"
          /\ InReturnedNext
          /\ insights'[vi] =
                [insights[vi] EXCEPT
                   !.validated = "True",
                   !.survival_score = Num(70),
                   !.validation_evidence = "Validation inconclusive"]]_vars

C8_Witness ==
    /\ Returned /\ Len(insights) = 2
    /\ branch = <<"inconclusive", "rejected">>
    /\ validated_insights = <<1>>
    /\ insights[1].survival_score = Num(70)

\* C9: a failed paper search (the call raises, or fails inside search_arxiv)
\* counts as zero results for that insight only: the insight default-survives,
\* validate never stops at a search, and when validate returns every insight
\* of the list was processed.
C9_SearchFailureIsolated ==
    /\ \A i \in 1..Len(insights) :
          branch[i] = "search_failed" =>
              /\ vi > i
              /\ i \in ReturnedSet
              /\ insights[i].validated = "True"
              /\ insights[i].survival_score = Num(85)
    /\ Returned => \A i \in 1..Len(insights) : branch[i] # "pending"
    /\ pc = "raised" => vphase # "search"

C9_Witness ==
    /\ Returned /\ Len(insights) = 2
    /\ branch = <<"search_failed", "rejected">>
    /\ validated_insights = <<1>>

\* papers[:5] of the input list, or the whole list
FirstFive(ps) == IF Len(ps) > 5 THEN SubSeq(ps, 1, 5) ELSE ps

AfterSkepticCall ==
    {"critiquing", "synthesizer", "synthesizing", "validator", "validated", "done"}

AfterAnalyzerCall == AfterSkepticCall \cup {"analyzing", "skeptic"}

\* C10: Analyzer and Skeptic each receive the first 5 input papers in input
\* order when more than 5 were supplied, and all of them otherwise.
C10_SamplingCap ==
    /\ pc \in AfterAnalyzerCall => analyzer_received = FirstFive(papers)
    /\ pc \in AfterSkepticCall => skeptic_received = FirstFive(papers)
    /\ analyzer_received \in {<<>>, FirstFive(papers)}
    /\ skeptic_received \in {<<>>, FirstFive(papers)}

C10_Witness ==
    /\ pc = "done" /\ Len(papers) = 50
    /\ analyzer_received = <<1, 2, 3, 4, 5>>
    /\ skeptic_received = <<1, 2, 3, 4, 5>>

\* positions inside generate_insights
InPipeline ==
    {"analyzer", "analyzing", "skeptic", "critiquing", "synthesizer",
     "synthesizing", "validator", "validated"}

\* C11: both the conversation log and the field context are reset at the
\* start of each generate_insights call: the first stage starts on an empty
\* log, and no stage is given a field context that an earlier call generated.
C11_StatelessAcrossRuns ==
    /\ pc = "analyzer" => conversation_log = <<>>
    /\ pc \in InPipeline => context_call # "earlier"

AnalysisFields == {"paper_analyses", "cross_paper_gaps"}

CritiqueFields ==
    {"contradictions", "potential_contradictions", "challenged_gaps",
     "missing_analysis", "field_insights", "interpretation",
     "field_knowledge_contradictions"}

\* an extracted value that is a list, null, an integer, or a mapping holding
\* every field of the schema with a value of the field's type
WellFormedOrOtherShape(r, fields) ==
    \/ r.shape \in {"list", "null", "scalar"}
    \/ r.shape = "map"
         /\ \A f \in fields : r[f] \in {"empty", "given", "mappings"}

\* a stage's returned output is a mapping holding every field of its schema
ConformsTo(output, fields) ==
    /\ output.shape = "map"
    /\ \A f \in fields : output[f] # "absent"

\* C13: for an extracted value that is a well-formed mapping, a list, null or
\* an integer, the Analyzer and the Skeptic return a mapping that holds every
\* field of the stage's schema.
C13_NormalizationTotal ==
    [][/\ (pc = "analyzing" /\ WellFormedOrOtherShape(result, AnalysisFields)) =>
            /\ stage_result'.stage = "Analyzer"
            /\ ConformsTo(stage_result'.output, AnalysisFields)
       /\ (pc = "critiquing" /\ WellFormedOrOtherShape(result, CritiqueFields)) =>
            /\ stage_result'.stage = "Skeptic"
            /\ ConformsTo(stage_result'.output, CritiqueFields)]_vars

\* C14: when the LLM's mapping lacks a field of the schema, the value the
\* stage returns still holds that field.
C14_AbsentFieldsFilled ==
    /\ stage_result.stage = "Analyzer" => ConformsTo(stage_result.output, AnalysisFields)
    /\ stage_result.stage = "Skeptic" => ConformsTo(stage_result.output, CritiqueFields)

\* C15: in every value critique returns, field_insights and interpretation
\* are non-empty, whatever the LLM returned.
C15_SkepticAlwaysInterprets ==
    stage_result.stage = "Skeptic" =>
        /\ ~Falsy(stage_result.output.field_insights)
        /\ ~Falsy(stage_result.output.interpretation)

\* critique returned a mapping whose two texts it had to generate
C15_Witness ==
    /\ pc = "synthesizer" /\ stage_result.stage = "Skeptic"
    /\ stage_result.output.contradictions = "given"
    /\ stage_result.output.field_insights = "default"
    /\ stage_result.output.interpretation = "default"

\* C16: no raw exception escapes the pipeline: generate_insights on at least
\* one paper returns normally for every LLM output at every stage and every
\* paper-source outcome.
C16_NoExceptionEscapes == Len(papers) >= 1 => pc # "raised"

\* C17: the paper search clients return a (possibly empty) list instead of
\* raising, for every set of enabled sources and every network outcome.
C17_SearchNeverRaises == pc # "search_raised"

\* C18: extract_json never raises, whatever the text; it returns null when
\* the text is empty or starts with "Error:", and when no parse attempt
\* succeeds.
C18_ExtractNeverRaises ==
    /\ pc # "raised"
    /\ pc \in {"extracted", "roundtripped"} =>
         /\ ~result.raised
         /\ (text = <<>> \/ text[1] = "Error:") => result.value = NullJson
         /\ ( /\ ~JsonLoads(text).ok
              /\ ~JsonLoads(CleanJson(FencedGroup(text).group)).ok
              /\ \A open \in {"[", "{"} :
                    ~JsonLoads(CutAtBalance(CleanJson(GreedyGroup(text, open).group),
                                            open)).ok )
             => result.value = NullJson

\* extract_json returned null for a text of unbalanced brackets
C18_Witness ==
    /\ pc = "extracted"
    /\ text = <<"[", "[", "1">>
    /\ ~result.raised /\ result.value = NullJson

\* C19: extraction round trip: extract_json of the serialization of a JSON
\* value returns a value equal to it.
C19_RoundTrip ==
    pc = "roundtripped" => ~result.raised /\ result.value = json_value

\* an array of two elements made the round trip
C19_Witness ==
    /\ pc = "roundtripped"
    /\ json_value = [t |-> "arr", items |-> <<Atom("num"), NullJson>>]
    /\ text = <<"[", "1", ",", "null", "]">>
    /\ result.value = json_value

\* C20: when search_papers returns no papers the caller shows its message
\* and does not invoke generate_insights: no stage runs and no log entry is
\* appended.
C20_EmptyListShortCircuits ==
    [][/\ (pc = "searched" /\ papers = <<>>) => pc' = "no_papers"
       /\ papers' = <<>> =>
            /\ pc' \notin InPipeline
            /\ conversation_log' = conversation_log
            /\ stage_result' = NoStageResult
            /\ analyzer_received' = <<>> /\ skeptic_received' = <<>>]_vars

\* the caller stopped on an empty search result
C20_Witness ==
    /\ pc = "no_papers" /\ papers = <<>>
    /\ conversation_log = <<>> /\ stage_result = NoStageResult
    /\ analyzer_received = <<>> /\ insights = <<>>

\* the titles the LLM supplied in the insights array, and the full texts of
\* its bare strings
SuppliedTitles(r) == { r.items[k].dict.title : k \in 1..Len(r.items) }

\* the titles the two fallback generators build
FallbackTitles(ps, gs) ==
    { CreateFallbackInsights(gs)[k].title : k \in 1..Len(CreateFallbackInsights(gs)) }
      \cup { CreateGenericFallback(ps)[k].title : k \in 1..Len(CreateGenericFallback(ps)) }

\* C21: every title in the list synthesize returns is the complete title the
\* LLM supplied, or the complete text of a promoted bare string, or a title
\* built by a fallback generator.
C21_TitleNeverTruncated ==
    [][(pc = "synthesizing" /\ pc' = "validator") =>
          \A i \in 1..Len(insights') :
              insights'[i].title \in
                  SuppliedTitles(result) \cup FallbackTitles(papers_for_agents, gaps)]_vars

\* C22: every insight validate returns carries a survival_score between 0 and
\* 10, whatever survival_score the LLM's judgement holds.
C22_ScoreInRange ==
    Returned =>
        \A i \in ReturnedSet :
            /\ insights[i].survival_score.t = "num"
            /\ insights[i].survival_score.v >= 0
            /\ insights[i].survival_score.v <= 100

\* C23: per-task isolation of the parallel search: search_all raises only
\* when no known platform is enabled, and the list it returns holds the papers
\* of every platform whose task returned, whatever the other tasks did.
C23_TaskIsolation ==
    /\ pc = "search_raised" => futures = NoFutures
    /\ pc = "search_returned" =>
          \A s \in Sources :
              futures[s] = "collected" <=> \E k \in 1..Len(results) : results[k] = s

\* The 'insights' value of the Synthesizer's log entry (line 1329): a list of
\* the insight objects themselves, the ones validate is given.
LoggedInsights == insights

IsPrefix(s, t) == Len(s) <= Len(t) /\ SubSeq(t, 1, Len(s)) = s

\* C24: within a run the log only grows, and once the Synthesizer's entry is
\* appended the insight records stored in it keep their values.
C24_LogAppendOnly ==
    [][(pc \in InPipeline) =>
         /\ IsPrefix(conversation_log, conversation_log')
         /\ (Len(conversation_log) >= 3) => (LoggedInsights' = LoggedInsights)]_vars

\* ---------------------------------------------------------------------------
\* validate's searches and LLM calls
\* ---------------------------------------------------------------------------

\* the positions of calls at which operation op was issued for insight i
CallsFor(op, i) == { k \in 1..Len(calls) : calls[k].op = op /\ calls[k].insight = i }

\* the insights whose loop iteration has ended
Processed == 1..(vi - 1)

\* C25: validate makes no LLM call for an insight whose search left it with no
\* challenge paper; every LLM call for an insight comes after that insight's
\* search, which found at least one paper; and an insight whose iteration has
\* ended was searched once and was judged by exactly one LLM call if its
\* search found a paper, by none otherwise.
C25_OneLLMCallPerChallengedInsight ==
    (pc \in {"validator", "validated", "done", "raised"}) =>
        /\ \A k \in 1..Len(calls) :
              calls[k].op = "llm" =>
                 \E j \in 1..(k - 1) : calls[j] = SearchCall(calls[k].insight, 1)
        /\ \A i \in 1..Len(insights) :
              branch[i] \in {"default", "search_failed"} => CallsFor("llm", i) = {}
        /\ \A i \in Processed \cap (1..Len(insights)) :
              /\ Cardinality(CallsFor("search", i)) = 1
              /\ \A k \in CallsFor("search", i) :
                    Cardinality(CallsFor("llm", i)) = IF calls[k].found THEN 1 ELSE 0

\* validate returned after one insight survived by default without an LLM call
\* and another was judged by the LLM
C25_Witness ==
    /\ Returned
    /\ \E i, j \in 1..Len(insights) :
          /\ branch[i] = "default" /\ CallsFor("llm", i) = {}
          /\ CallsFor("llm", j) # {}

\* C26: when validate judges an insight, a refinement that is non-empty and
\* differs from both the insight's observation and its gap replaces at least
\* one of the two; an empty refinement, or one equal to the observation or to
\* the gap, leaves both fields as they were; and an insight that is not kept
\* keeps both fields.
C26_RefinementApplied ==
    [][(pc = "validator" /\ vphase = "decide" /\ pc' = "validator") =>
          LET x == insights[vi]
              y == insights'[vi]
              r == NormalizeValidation(validation).refinement
              kept == Len(validated_insights') > Len(validated_insights)
              same == y.observation = x.observation /\ y.gap = x.gap
          IN  /\ (kept /\ Strip(r) # "" /\ r \notin {x.observation, x.gap}) =>
                    (y.observation = r \/ y.gap = r)
              /\ (kept /\ (Strip(r) = "" \/ r \in {x.observation, x.gap})) => same
              /\ (~kept) => same]_vars

\* the positions of the papers past the first 20
Remainder(ps) == (TopByRelevance + 1)..Len(ps)

\* C27: from 50 input papers on, the research-intelligence sample is the first
\* 20 papers followed by at most 10 papers of the remainder, no paper twice
\* and at most 30 in all; the input list is as it was supplied; and Analyzer
\* and Skeptic still receive the first five papers, not the sample.
C27_IntelligenceSample ==
    (pc \in InPipeline \cup {"done"} /\ Len(papers) >= IntelligenceThreshold) =>
        LET s == papers_for_intelligence
            rest == { papers[i] : i \in Remainder(papers) }
        IN  /\ Len(s) <= IntelligenceCap
            /\ Len(s) >= TopByRelevance
            /\ SubSeq(s, 1, TopByRelevance) = SubSeq(papers, 1, TopByRelevance)
            /\ Len(s) - TopByRelevance <= RandomExtra
            /\ \A k \in (TopByRelevance + 1)..Len(s) : s[k] \in rest
            /\ Cardinality({ s[k] : k \in 1..Len(s) }) = Len(s)
            /\ papers = PaperList(Len(papers))
            /\ papers_for_agents = FirstFive(papers)
            /\ analyzer_received \in {<<>>, FirstFive(papers)}
            /\ skeptic_received \in {<<>>, FirstFive(papers)}

\* a run on 50 papers whose sample holds 30 papers, the drawn ones out of
\* input order, while the Analyzer received five
C27_Witness ==
    /\ pc = "done" /\ Len(papers) = IntelligenceThreshold
    /\ Len(papers_for_intelligence) = IntelligenceCap
    /\ \E k \in (TopByRelevance + 1)..(IntelligenceCap - 1) :
          papers_for_intelligence[k] > papers_for_intelligence[k + 1]
    /\ analyzer_received = <<1, 2, 3, 4, 5>>

\* the title, a space and the gap, cut to 150 characters and lowercased
QueryWindow ==
    LET whole == keyword_title_text \o <<" ">> \o keyword_gap_text
    IN  LowerAll(SubSeq(whole, 1, Min(KeywordWindow, Len(whole))))

\* the positions of the text w where a token starts
TokenStarts(w) ==
    { i \in 1..Len(w) : w[i] \notin Whitespace /\ (i = 1 \/ w[i - 1] \in Whitespace) }

\* the token of w that starts at position i: the longest run without whitespace
TokenAt(w, i) ==
    LET last == CHOOSE j \in i..Len(w) :
                    /\ j = Len(w) \/ w[j + 1] \in Whitespace
                    /\ \A k \in i..j : w[k] \notin Whitespace
    IN  SubSeq(w, i, last)

\* the starts of the tokens longer than 4 characters that are no filler word
KeywordStarts(w) ==
    { i \in TokenStarts(w) : Len(TokenAt(w, i)) > 4 /\ \A f \in filler : TokenAt(w, i) # f }

\* how many of the positions ks lie before position i
Rank(ks, i) == Cardinality({ j \in ks : j < i })

C29_FieldContextNeverError ==
    pc \in InPipeline => ~IsErrorString(field_context)

\* the insight y is the insight x with at most its validation fields, its
\* observation and its gap changed
OnlyValidationChanged(x, y) ==
    y = [x EXCEPT !.validated = y.validated,
                  !.survival_score = y.survival_score,
                  !.validation_evidence = y.validation_evidence,
                  !.validation_dialogue = y.validation_dialogue,
                  !.related_work = y.related_work,
                  !.validation_comment = y.validation_comment,
                  !.experiment_design_quality = y.experiment_design_quality,
                  !.observation = y.observation,
                  !.gap = y.gap]

\* C30: validate works through the insights in list order and returns a
\* subsequence of its input: the returned insights are insights of the input
\* list in increasing position, none twice, and each insight of the list
\* differs from the one validate received at most in its validation fields,
\* its observation and its gap.
C30_ReturnsSubsequence ==
    /\ \A j, k \in 1..Len(calls) : j < k => calls[j].insight <= calls[k].insight
    /\ Returned =>
          /\ \A k \in 1..Len(validated_insights) :
                validated_insights[k] \in 1..Len(pre_validation)
          /\ \A j, k \in 1..Len(validated_insights) :
                j < k => validated_insights[j] < validated_insights[k]
          /\ Len(insights) = Len(pre_validation)
          /\ \A i \in 1..Len(insights) : OnlyValidationChanged(pre_validation[i], insights[i])

\* the first of two insights was rejected and the second is returned with its
\* observation refined
C30_Witness ==
    /\ Returned /\ Len(insights) = 2
    /\ branch[1] = "rejected"
    /\ validated_insights = <<2>>
    /\ insights[2].observation # pre_validation[2].observation
    /\ Len(calls) = 4

====
